---- MODULE Spec2Model ----
(***************************************************************************)
(* Model of health-checks/system_metrics_report.py: one run of main(),     *)
(* i.e. SystemMetrics.collect_all_metrics, HTMLReportGenerator             *)
(* .generate_html, the write of the output file and the optional mail.     *)
(*                                                                         *)
(* Conventions                                                             *)
(*  - A Python dict is a TLA+ function over strings; d.get(k, default) is  *)
(*    Get(d, k, default) and d[k] on a missing key is a KeyError.          *)
(*  - A float rounded to one decimal (round(x, 1)) is kept as an integer   *)
(*    number of tenths: 80.1 % is 801.  Pct(n) is the whole number n in    *)
(*    tenths.                                                              *)
(*  - A percentage is a pair <<type, tenths>> (PyFloat, PyInt), because    *)
(*    f"{0}" is "0" and f"{0.0}" is "0.0"; Val is its value in tenths.     *)
(*  - The host (files under /proc, the external commands and their exit    *)
(*    status) is the variable host: it is fixed at the start of the run.   *)
(***************************************************************************)
EXTENDS Integers, Sequences, FiniteSets, TLC

VARIABLES
    pc,            \* the statement of main() that runs next
    args,          \* argparse namespace: [output, email]
    CONFIG,        \* the module-level configuration map
    host,          \* the operating system the probes query
    metrics,       \* SystemMetrics.metrics, the Snapshot
    html_content,  \* the document returned by generate_html
    output_file,   \* content of the file at args.output
    mail,          \* how far send_email_report got
    log,           \* messages passed to logging.error
    exit_code,     \* exit status of the process
    calls,         \* the commands run and files opened by the collectors, in order
    mailed,        \* the document handed to sendmail
    stdout         \* the lines printed, in order

vars == <<pc, args, CONFIG, host, metrics, html_content, output_file, mail, log,
          exit_code, calls, mailed, stdout>>

-----------------------------------------------------------------------------
(* Dicts and numbers *)

Get(d, k, default) == IF k \in DOMAIN d THEN d[k] ELSE default

Put(d, k, v) == [n \in (DOMAIN d) \cup {k} |-> IF n = k THEN v ELSE d[n]]

EmptyDict == <<>>

Pct(n) == n * 10

\* the percentage cut to its first decimal instead of rounded
RoundPercent_truncating(num, den) == (num * 1000) \div den

\* round(num / den * 100, 1) in tenths, den > 0: nearest tenth, a tie to the even one
RoundPercent(num, den) ==
    LET q == (num * 1000) \div den
        r == (num * 1000) % den
    IN  IF 2 * r > den THEN q + 1
        ELSE IF 2 * r < den THEN q
        ELSE IF q % 2 = 0 THEN q ELSE q + 1

\* Python numbers that reach the page: the type decides the text of f"{x}"
PyFloat(tenths) == <<"float", tenths>>

PyInt(n) == <<"int", Pct(n)>>

Val(x) == x[2]

Range(s) == {s[i] : i \in DOMAIN s}

RECURSIVE SelectRows(_, _)
\* the lines of a command's output that a parsing loop keeps: those that
\* split into at least mincols parts (a line is a record, parts its count)
SelectRows(rows, mincols) ==
    IF rows = <<>> THEN <<>>
    ELSE LET rest == SelectRows(Tail(rows), mincols)
         IN  IF Head(rows).parts >= mincols THEN <<Head(rows)>> \o rest ELSE rest

RECURSIVE MapSeq(_, _)
MapSeq(F(_), s) == IF s = <<>> THEN <<>> ELSE <<F(Head(s))>> \o MapSeq(F, Tail(s))

\* an error marker that also reports the worst usage for the failed group
ErrorMarker_worst_case(msg) == [error |-> msg, usage_percent |-> PyInt(100)]

ErrorMarker(msg) == [error |-> msg]

IsErrorMarker(rec) == "error" \in DOMAIN rec

-----------------------------------------------------------------------------
(* Bounds of the exploration *)

\* how many names of critical_services the explored hosts vary
MonitoredCount == 2

\* the longest df listing explored
MaxFilesystems == 2

-----------------------------------------------------------------------------
(* SystemMetrics: the collectors.  Each is a function of the host (and of  *)
(* the Snapshot so far); the actions further down store the result.        *)

\* collect_system_info has no try around the reads of /proc/uptime and of the
\* load average: the result says whether the call raised
collect_system_info_result(h) ==
    IF ~h.proc_uptime.readable THEN [raised |-> TRUE, exc |-> "/proc/uptime"]
    ELSE IF ~h.loadavg.ok THEN [raised |-> TRUE, exc |-> "getloadavg"]
    ELSE [raised |-> FALSE,
          value |-> [hostname |-> h.hostname,
                     fqdn |-> h.hostname,
                     os_info |-> IF h.redhat_release THEN "redhat-release" ELSE "platform",
                     kernel |-> "kernel",
                     architecture |-> "x86_64",
                     uptime |-> <<h.proc_uptime.seconds \div 86400,
                                  (h.proc_uptime.seconds % 86400) \div 3600>>,
                     uptime_seconds |-> h.proc_uptime.seconds,
                     load_avg |-> [min1 |-> h.loadavg.avg[1],
                                   min5 |-> h.loadavg.avg[2],
                                   min15 |-> h.loadavg.avg[3]],
                     cpu_cores |-> h.cpu_count,
                     timestamp |-> "timestamp"]]

\* one line of "ps aux" turned into the dict the collectors keep
process_entry(row) ==
    [user |-> row.user, pid |-> row.pid, cpu |-> row.cpu, mem |-> row.mem,
     command |-> [text |-> row.command, ellipsis |-> row.command_len > 50]]

top_processes(rows) == MapSeq(process_entry, SelectRows(rows, 11))

Sum4(t) == t[1] + t[2] + t[3] + t[4]

collect_cpu_metrics_result(h, m) ==
    IF ~h.proc_stat.readable THEN ErrorMarker("/proc/stat")
    ELSE IF Sum4(h.proc_stat.cpu_times) = 0 THEN ErrorMarker("division by zero")
    ELSE IF "system" \notin DOMAIN m THEN ErrorMarker("'system'")
    ELSE [usage_percent |-> PyFloat(RoundPercent(Sum4(h.proc_stat.cpu_times) - h.proc_stat.cpu_times[4],
                                                 Sum4(h.proc_stat.cpu_times))),
          model |-> IF h.proc_cpuinfo.readable THEN h.proc_cpuinfo.model ELSE "Unknown",
          cores |-> m["system"]["cpu_cores"],
          load_avg |-> m["system"]["load_avg"],
          top_processes |-> top_processes(h.ps_cpu)]

Units == <<"B", "KB", "MB", "GB", "TB">>

RECURSIVE bytes_to_human_from(_, _, _)
\* value is num/den bytes-units at Units[i]; the text is "<one decimal> <unit>"
bytes_to_human_from(num, den, i) ==
    IF i > Len(Units) THEN <<RoundPercent(num, den * 100), "PB">>
    ELSE IF num < 1024 * den THEN <<RoundPercent(num, den * 100), Units[i]>>
    ELSE bytes_to_human_from(num, den * 1024, i + 1)

bytes_to_human(bytes_val) == bytes_to_human_from(bytes_val, 1, 1)

\* a host without swap shown as a host whose swap is exhausted
swap_usage_percent_full(swap_used, swap_total) ==
    IF swap_total > 0 THEN PyFloat(RoundPercent(swap_used, swap_total)) ELSE PyInt(100)

\* round((swap_used / swap_total) * 100, 1) if swap_total > 0 else 0
swap_usage_percent(swap_used, swap_total) ==
    IF swap_total > 0 THEN PyFloat(RoundPercent(swap_used, swap_total)) ELSE PyInt(0)

collect_memory_metrics_result(h) ==
    IF ~h.proc_meminfo.readable THEN ErrorMarker("/proc/meminfo")
    ELSE LET mem_info == [k \in DOMAIN h.proc_meminfo.kb |-> h.proc_meminfo.kb[k] * 1024]
         IN
         IF "MemTotal" \notin DOMAIN mem_info THEN ErrorMarker("'MemTotal'")
         \* the default of .get is evaluated before the call
         ELSE IF "MemFree" \notin DOMAIN mem_info THEN ErrorMarker("'MemFree'")
         ELSE IF mem_info["MemTotal"] = 0 THEN ErrorMarker("division by zero")
         ELSE LET total_mem == mem_info["MemTotal"]
                  available_mem == Get(mem_info, "MemAvailable", mem_info["MemFree"])
                  used_mem == total_mem - available_mem
                  swap_total == Get(mem_info, "SwapTotal", 0)
                  swap_free == Get(mem_info, "SwapFree", 0)
                  swap_used == swap_total - swap_free
              IN  [total_bytes |-> total_mem,
                   used_bytes |-> used_mem,
                   available_bytes |-> available_mem,
                   total_human |-> bytes_to_human(total_mem),
                   used_human |-> bytes_to_human(used_mem),
                   available_human |-> bytes_to_human(available_mem),
                   usage_percent |-> PyFloat(RoundPercent(used_mem, total_mem)),
                   swap_total_bytes |-> swap_total,
                   swap_used_bytes |-> swap_used,
                   swap_total_human |-> bytes_to_human(swap_total),
                   swap_used_human |-> bytes_to_human(swap_used),
                   swap_usage_percent |-> swap_usage_percent(swap_used, swap_total),
                   top_processes |-> top_processes(h.ps_mem)]

\* the critical test written with > instead of >=
disk_status_above_90(usage_percent) ==
    IF usage_percent > 90 THEN "critical"
    ELSE IF usage_percent >= 80 THEN "warning"
    ELSE "ok"

disk_status(usage_percent) ==
    IF usage_percent >= 90 THEN "critical"
    ELSE IF usage_percent >= 80 THEN "warning"
    ELSE "ok"

filesystem_entry(row) ==
    [filesystem |-> row.filesystem,
     size |-> row.size,
     used |-> row.used,
     available |-> row.available,
     usage_percent |-> PyInt(row.use),
     mountpoint |-> row.mountpoint,
     status |-> disk_status(row.use)]

inode_entry(row) ==
    [total |-> row.size, used |-> row.used, available |-> row.available,
     usage_percent |-> PyInt(row.use)]

\* inode_info[parts[5]] = {...}: a later line of the same mountpoint replaces an earlier one
inode_info(rows) ==
    LET kept == SelectRows(rows, 6)
        last(mp) == CHOOSE i \in DOMAIN kept :
                        /\ kept[i].mountpoint = mp
                        /\ \A j \in DOMAIN kept : kept[j].mountpoint = mp => j <= i
    IN  [mp \in {kept[i].mountpoint : i \in DOMAIN kept} |-> inode_entry(kept[last(mp)])]

large_file_entry(row) == [size |-> row.size, date |-> row.date, path |-> row.path]

\* "df ... | grep -vE ..." exits with grep's status; check_output raises on a non-zero one
collect_disk_metrics_result(h) ==
    IF h.df_h.rc # 0 THEN ErrorMarker("df -h")
    ELSE IF h.df_i.rc # 0 THEN ErrorMarker("df -i")
    ELSE [filesystems |-> MapSeq(filesystem_entry, SelectRows(h.df_h.rows, 6)),
          inodes |-> inode_info(h.df_i.rows),
          large_files |-> IF h.find_large.rc # 0 THEN <<>>
                          ELSE MapSeq(large_file_entry, SelectRows(h.find_large.rows, 9))]

NoneValue == "None"

RECURSIVE parse_ip_addr(_, _)
\* the loop over the lines of "ip addr show": a header line opens an interface,
\* an "inet " line adds its address to the interface opened last
parse_ip_addr(lines, interfaces) ==
    IF lines = <<>> THEN interfaces
    ELSE LET line == Head(lines)
             n == Len(interfaces)
         IN  IF line.kind = "header"
             THEN parse_ip_addr(Tail(lines),
                      Append(interfaces,
                             [name |-> line.name,
                              status |-> IF line.up THEN "UP" ELSE "DOWN",
                              addresses |-> <<>>]))
             ELSE IF line.kind = "inet" /\ n > 0
             THEN parse_ip_addr(Tail(lines),
                      [interfaces EXCEPT ![n].addresses = Append(@, line.addr)])
             ELSE parse_ip_addr(Tail(lines), interfaces)

collect_network_metrics_result(h) ==
    IF h.ip_addr.rc # 0 THEN ErrorMarker("ip addr show")
    ELSE [interfaces |-> parse_ip_addr(h.ip_addr.lines, <<>>),
          default_gateway |-> IF h.ip_route.rc = 0 THEN h.ip_route.gw ELSE NoneValue,
          dns_status |-> IF h.nslookup.rc = 0 THEN "ok" ELSE "failed",
          listening_ports |-> h.ss_listen]

critical_services ==
    <<"sshd", "NetworkManager", "chronyd", "rsyslog",
      "firewalld", "postfix", "httpd", "nginx", "mariadb", "postgresql">>

\* one pass of the loop body: the three systemctl calls share one try, and any
\* non-zero exit status raises CalledProcessError, which skips the service
service_recorded(unit) ==
    /\ unit.list_unit_files_rc = 0
    /\ unit.is_active.rc = 0
    /\ unit.is_enabled.rc = 0

service_entry(name, unit) ==
    [name |-> name,
     status |-> unit.is_active.out,
     enabled |-> unit.is_enabled.out,
     health |-> IF unit.is_active.out = "active" THEN "ok" ELSE "critical"]

RECURSIVE services_status(_, _)
services_status(names, units) ==
    IF names = <<>> THEN <<>>
    ELSE LET rest == services_status(Tail(names), units)
         IN  IF service_recorded(units[Head(names)])
             THEN <<service_entry(Head(names), units[Head(names)])>> \o rest
             ELSE rest

\* the failed-units query without its own try: its failure reaches the outer except
collect_service_metrics_result_unguarded(h) ==
    IF h.list_failed.rc # 0 THEN ErrorMarker("systemctl list-units --failed")
    ELSE [critical_services |-> services_status(critical_services, h.units),
          failed_count |-> h.list_failed.lines]

collect_service_metrics_result(h) ==
    [critical_services |-> services_status(critical_services, h.units),
     failed_count |-> IF h.list_failed.rc = 0 THEN h.list_failed.lines ELSE 0]

\* 'active' in firewall_status, a substring test: "inactive" contains "active"
contains_active(text) == text \in {"active (firewalld)", "active (iptables)", "inactive"}

collect_security_metrics_result(h) ==
    LET firewall_status ==
            IF h.firewalld_rc = 0 THEN "active (firewalld)"
            ELSE IF h.iptables_rc = 0 THEN "active (iptables)"
            ELSE "inactive"
        updates_count == IF h.check_update.rc = 0 THEN h.check_update.lines ELSE 0
        failed_logins == IF h.secure_log.rc = 0 THEN h.secure_log.count ELSE 0
    IN  [selinux |-> IF h.getenforce.rc = 0
                     THEN [status |-> h.getenforce.out,
                           health |-> IF h.getenforce.out = "Enforcing" THEN "ok" ELSE "warning"]
                     ELSE [status |-> "Not available", health |-> "unknown"],
         firewall |-> [status |-> firewall_status,
                       health |-> IF contains_active(firewall_status) THEN "ok" ELSE "warning"],
         updates |-> [available |-> updates_count,
                      health |-> IF updates_count = 0 THEN "ok" ELSE "warning"],
         failed_logins |-> [count |-> failed_logins,
                            health |-> IF failed_logins < 10 THEN "ok" ELSE "warning"]]

-----------------------------------------------------------------------------
(* The commands a collector runs and the files it opens, in the order it   *)
(* reaches them: a call that raises ends the try block it is in.  A call   *)
(* is the pair of the program, or "open", and what it is asked about.      *)

system_info_calls(h) == <<<<"open", "/etc/redhat-release">>, <<"open", "/proc/uptime">>>>

cpu_calls(h) ==
    IF ~h.proc_stat.readable \/ Sum4(h.proc_stat.cpu_times) = 0
    THEN <<<<"open", "/proc/stat">>>>
    ELSE <<<<"open", "/proc/stat">>, <<"ps aux", "--sort=-%cpu">>, <<"open", "/proc/cpuinfo">>>>

memory_calls(h) ==
    IF IsErrorMarker(collect_memory_metrics_result(h))
    THEN <<<<"open", "/proc/meminfo">>>>
    ELSE <<<<"open", "/proc/meminfo">>, <<"ps aux", "--sort=-%mem">>>>

disk_calls(h) ==
    <<<<"df", "-h">>>>
    \o (IF h.df_h.rc # 0 THEN <<>>
        ELSE <<<<"df", "-i">>>>
             \o (IF h.df_i.rc # 0 THEN <<>> ELSE <<<<"find", "/var/log">>>>))

network_calls(h) ==
    <<<<"ip", "addr show">>>>
    \o (IF h.ip_addr.rc # 0 THEN <<>>
        ELSE <<<<"ip", "route">>, <<"nslookup", "google.com">>, <<"ss", "-tuln">>>>)

\* one pass of the loop body: is-active is asked only of a unit that is
\* listed, is-enabled only of a unit that is active
unit_calls(name, unit) ==
    <<<<"systemctl list-unit-files", name>>>>
    \o (IF unit.list_unit_files_rc # 0 THEN <<>>
        ELSE <<<<"systemctl is-active", name>>>>
             \o (IF unit.is_active.rc # 0 THEN <<>>
                 ELSE <<<<"systemctl is-enabled", name>>>>))

RECURSIVE loop_calls(_, _)
loop_calls(names, units) ==
    IF names = <<>> THEN <<>>
    ELSE unit_calls(Head(names), units[Head(names)]) \o loop_calls(Tail(names), units)

service_calls(h) ==
    loop_calls(critical_services, h.units) \o <<<<"systemctl list-units", "--failed">>>>

\* the firewalld query asked a second time when it fails
firewall_calls_retrying(h) ==
    <<<<"systemctl is-active", "firewalld">>>>
    \o (IF h.firewalld_rc = 0 THEN <<>>
        ELSE <<<<"systemctl is-active", "firewalld">>, <<"systemctl is-active", "iptables">>>>)

\* iptables is asked only in the except clause of the firewalld query
firewall_calls(h) ==
    <<<<"systemctl is-active", "firewalld">>>>
    \o (IF h.firewalld_rc = 0 THEN <<>> ELSE <<<<"systemctl is-active", "iptables">>>>)

security_calls(h) ==
    <<<<"getenforce", "">>>>
    \o firewall_calls(h)
    \o <<<<"dnf or yum", "check-update">>>>
    \o <<<<"grep", "/var/log/secure">>>>

-----------------------------------------------------------------------------
(* HTMLReportGenerator.  The document is the record of everything the      *)
(* methods interpolate into the fixed template; a method that raises       *)
(* yields [raised |-> TRUE].                                               *)

\* both tests written with > instead of >=
_get_usage_status_above(usage, warning, critical) ==
    IF Val(usage) > Pct(critical) THEN "critical"
    ELSE IF Val(usage) > Pct(warning) THEN "warning"
    ELSE "ok"

_get_usage_status(usage, warning, critical) ==
    IF Val(usage) >= Pct(critical) THEN "critical"
    ELSE IF Val(usage) >= Pct(warning) THEN "warning"
    ELSE "ok"

\* both tests written with > instead of >=
_get_load_status_above(load_avg, cpu_cores) ==
    IF load_avg > 200 * cpu_cores THEN "status-critical"
    ELSE IF load_avg > 100 * cpu_cores THEN "status-warning"
    ELSE "status-ok"

\* load_avg is in hundredths; load_avg / cpu_cores >= 2.0
_get_load_status(load_avg, cpu_cores) ==
    IF load_avg >= 200 * cpu_cores THEN "status-critical"
    ELSE IF load_avg >= 100 * cpu_cores THEN "status-warning"
    ELSE "status-ok"

RECURSIVE disk_issues(_)
\* the loop over the filesystems: one issue for each that passes the test
disk_issues(filesystems) ==
    IF filesystems = <<>> THEN <<>>
    ELSE LET fs == Head(filesystems)
         IN  (IF Val(Get(fs, "usage_percent", PyInt(0))) > Pct(90)
              THEN << <<"Critical disk space on", fs["mountpoint"]>> >>
              ELSE <<>>) \o disk_issues(Tail(filesystems))

\* overall_health_of with the disk test moved before the CPU and memory tests
overall_health_of_disk_first(m) ==
    LET cpu_high == "cpu" \in DOMAIN m /\ Val(Get(m["cpu"], "usage_percent", PyInt(0))) > Pct(80)
        mem_high == "memory" \in DOMAIN m /\ Val(Get(m["memory"], "usage_percent", PyInt(0))) > Pct(85)
        fs_issues == IF "disk" \in DOMAIN m
                     THEN disk_issues(Get(m["disk"], "filesystems", <<>>))
                     ELSE <<>>
        h1 == IF fs_issues # <<>> THEN "critical" ELSE "ok"
        h2 == IF cpu_high THEN "warning" ELSE h1
        h3 == IF mem_high THEN "warning" ELSE h2
    IN  [overall_health |-> h3,
         health_issues |-> fs_issues
                           \o (IF cpu_high THEN << <<"High CPU usage">> >> ELSE <<>>)
                           \o (IF mem_high THEN << <<"High memory usage">> >> ELSE <<>>)]

\* the three if-statements, in the order of the source; each may overwrite
\* overall_health
overall_health_of(m) ==
    LET cpu_high == "cpu" \in DOMAIN m /\ Val(Get(m["cpu"], "usage_percent", PyInt(0))) > Pct(80)
        mem_high == "memory" \in DOMAIN m /\ Val(Get(m["memory"], "usage_percent", PyInt(0))) > Pct(85)
        fs_issues == IF "disk" \in DOMAIN m
                     THEN disk_issues(Get(m["disk"], "filesystems", <<>>))
                     ELSE <<>>
        h0 == "ok"
        h1 == IF cpu_high THEN "warning" ELSE h0
        h2 == IF mem_high THEN "warning" ELSE h1
        h3 == IF fs_issues # <<>> THEN "critical" ELSE h2
    IN  [overall_health |-> h3,
         health_issues |-> (IF cpu_high THEN << <<"High CPU usage">> >> ELSE <<>>)
                           \o (IF mem_high THEN << <<"High memory usage">> >> ELSE <<>>)
                           \o fs_issues]

_generate_system_overview(m) ==
    IF "system" \notin DOMAIN m THEN [raised |-> TRUE, exc |-> "KeyError: 'system'"]
    ELSE LET system == m["system"]
             oh == overall_health_of(m)
         IN  [raised |-> FALSE,
              alert |-> IF oh.overall_health = "ok" THEN "success"
                        ELSE IF oh.overall_health = "warning" THEN "warning" ELSE "danger",
              health_class |-> oh.overall_health,
              health_text |-> IF oh.overall_health = "ok" THEN "Excellent"
                              ELSE IF oh.overall_health = "warning" THEN "Needs Attention"
                              ELSE "Critical Issues",
              issues |-> oh.health_issues,
              issues_line |-> IF oh.health_issues # <<>> THEN "Issues"
                              ELSE "All systems operating normally",
              os_info |-> system["os_info"],
              kernel |-> system["kernel"],
              architecture |-> system["architecture"],
              uptime |-> system["uptime"],
              uptime_days |-> system["uptime_seconds"] \div 86400,
              cpu_cores |-> system["cpu_cores"],
              load_class |-> _get_load_status(system["load_avg"]["min1"], system["cpu_cores"]),
              load_avg |-> system["load_avg"]]

\* '' for no processes, else a table of at most five rows
_generate_top_processes_table(processes, metric_type) ==
    IF processes = <<>> THEN [table |-> FALSE, rows |-> <<>>]
    ELSE [table |-> TRUE, title |-> metric_type,
          rows |-> SubSeq(processes, 1, IF Len(processes) < 5 THEN Len(processes) ELSE 5)]

_generate_performance_metrics(m) ==
    LET cpu == Get(m, "cpu", EmptyDict)
        memory == Get(m, "memory", EmptyDict)
        cpu_usage == Get(cpu, "usage_percent", PyInt(0))
        memory_usage == Get(memory, "usage_percent", PyInt(0))
        swap_usage == Get(memory, "swap_usage_percent", PyInt(0))
    IN  [raised |-> FALSE,
         cpu_usage |-> cpu_usage,
         cpu_status |-> _get_usage_status(cpu_usage, 75, 90),
         cpu_processes |-> _generate_top_processes_table(Get(cpu, "top_processes", <<>>), "CPU"),
         memory_usage |-> memory_usage,
         memory_status |-> _get_usage_status(memory_usage, 75, 90),
         memory_used |-> Get(memory, "used_human", <<0, "N/A">>),
         memory_total |-> Get(memory, "total_human", <<0, "N/A">>),
         memory_processes |-> _generate_top_processes_table(Get(memory, "top_processes", <<>>), "Memory"),
         swap_usage |-> swap_usage,
         swap_status |-> _get_usage_status(swap_usage, 25, 50),
         swap_used |-> Get(memory, "swap_used_human", <<0, "N/A">>),
         swap_total |-> Get(memory, "swap_total_human", <<0, "N/A">>)]

_generate_disk_analysis(m) ==
    LET disk == Get(m, "disk", EmptyDict)
        filesystems == Get(disk, "filesystems", <<>>)
        large_files == Get(disk, "large_files", <<>>)
    IN  [raised |-> FALSE,
         table |-> filesystems # <<>>,
         rows |-> filesystems,
         placeholder |-> IF filesystems # <<>> THEN "" ELSE "No filesystem data available",
         large_files_table |-> large_files # <<>>,
         large_files |-> large_files]

interface_row(interface) ==
    [name |-> interface["name"],
     status |-> interface["status"],
     status_class |-> IF interface["status"] = "UP" THEN "status-ok" ELSE "status-critical",
     addresses |-> IF interface["addresses"] # <<>> THEN interface["addresses"]
                   ELSE <<"No IP assigned">>]

_generate_network_status(m) ==
    LET network == Get(m, "network", EmptyDict)
        interfaces == Get(network, "interfaces", <<>>)
        default_gw == Get(network, "default_gateway", NoneValue)
        dns_status == Get(network, "dns_status", "unknown")
    IN  [raised |-> FALSE,
         interfaces |-> MapSeq(interface_row, interfaces),
         placeholder |-> IF interfaces # <<>> THEN "" ELSE "No network interface data available",
         gateway_class |-> IF default_gw # NoneValue THEN "status-ok" ELSE "status-warning",
         gateway |-> IF default_gw # NoneValue THEN default_gw ELSE "Not configured",
         dns_class |-> dns_status,
         dns_text |-> IF dns_status = "ok" THEN "Working" ELSE "Failed",
         listening_ports |-> Get(network, "listening_ports", 0)]

_generate_security_status(m) ==
    LET security == Get(m, "security", EmptyDict)
        selinux == Get(security, "selinux", EmptyDict)
        firewall == Get(security, "firewall", EmptyDict)
        updates == Get(security, "updates", EmptyDict)
        failed_logins == Get(security, "failed_logins", EmptyDict)
    IN  [raised |-> FALSE,
         selinux_status |-> Get(selinux, "status", "Unknown"),
         selinux_health |-> Get(selinux, "health", "unknown"),
         firewall_status |-> Get(firewall, "status", "Unknown"),
         firewall_health |-> Get(firewall, "health", "unknown"),
         updates_count |-> Get(updates, "available", 0),
         updates_health |-> Get(updates, "health", "unknown"),
         login_count |-> Get(failed_logins, "count", 0),
         login_health |-> Get(failed_logins, "health", "unknown")]

service_row(service) ==
    [name |-> service["name"],
     status |-> service["status"],
     status_class |-> service["health"],
     enabled |-> service["enabled"],
     enabled_class |-> IF service["enabled"] = "enabled" THEN "status-ok" ELSE "status-warning"]

_generate_services_status(m) ==
    LET services == Get(m, "services", EmptyDict)
        monitored == Get(services, "critical_services", <<>>)
        failed_count == Get(services, "failed_count", 0)
    IN  [raised |-> FALSE,
         alert |-> IF failed_count = 0 THEN "success" ELSE "warning",
         monitored_count |-> Len(monitored),
         failed_count |-> failed_count,
         table |-> monitored # <<>>,
         rows |-> MapSeq(service_row, monitored),
         placeholder |-> IF monitored # <<>> THEN "" ELSE "No service data available"]

\* the sections are built first, in this order; the template is filled last
generate_html(m) ==
    LET system_overview == _generate_system_overview(m)
    IN  IF system_overview.raised THEN [raised |-> TRUE, exc |-> system_overview.exc]
        ELSE [raised |-> FALSE,
              hostname |-> m["system"]["hostname"],
              timestamp |-> m["system"]["timestamp"],
              system_overview |-> system_overview,
              performance_metrics |-> _generate_performance_metrics(m),
              disk_analysis |-> _generate_disk_analysis(m),
              network_status |-> _generate_network_status(m),
              security_status |-> _generate_security_status(m),
              services_status |-> _generate_services_status(m)]

-----------------------------------------------------------------------------
(* The hosts explored.  BaseHost is a healthy machine; each family varies  *)
(* the probes of one concern and leaves the others as in BaseHost.         *)

RECURSIVE SeqsUpTo(_, _)
\* the sequences over S of length at most n
SeqsUpTo(S, n) ==
    IF n = 0 THEN {<<>>}
    ELSE LET shorter == SeqsUpTo(S, n - 1)
         IN  shorter \cup {Append(q, x) : q \in shorter, x \in S}

Mountpoints == <<"/", "/data", "/var", "/home">>

\* a line of df that splits into six parts, for the i-th filesystem
DfRow(i, use) ==
    [parts |-> 6, filesystem |-> "/dev/sda", size |-> "50G", used |-> "20G",
     available |-> "30G", use |-> use, mountpoint |-> Mountpoints[i]]

\* the first half of a line df wrapped after a long device name
DfWrappedRow ==
    [parts |-> 1, filesystem |-> "/dev/mapper/long", size |-> "", used |-> "",
     available |-> "", use |-> 0, mountpoint |-> ""]

FsUsages == {79, 80, 89, 90, 91, 95}

DfListings ==
    {[i \in DOMAIN q |-> DfRow(i, q[i])] : q \in SeqsUpTo(FsUsages, MaxFilesystems) \ {<<>>}}
    \cup {<<DfWrappedRow>>}

PsRow ==
    [parts |-> 11, user |-> "root", pid |-> "1", cpu |-> "0.0", mem |-> "0.1",
     command |-> "/usr/lib/systemd/systemd", command_len |-> 24]

\* what the three systemctl queries of the loop answer for one unit:
\* is-active and is-enabled exit with 0 only for an active, an enabled unit
UnitMissing ==
    [list_unit_files_rc |-> 1, is_active |-> [rc |-> 3, out |-> "inactive"],
     is_enabled |-> [rc |-> 1, out |-> ""]]

UnitStates ==
    {UnitMissing,
     [list_unit_files_rc |-> 0, is_active |-> [rc |-> 0, out |-> "active"],
      is_enabled |-> [rc |-> 0, out |-> "enabled"]],
     [list_unit_files_rc |-> 0, is_active |-> [rc |-> 3, out |-> "inactive"],
      is_enabled |-> [rc |-> 0, out |-> "enabled"]],
     [list_unit_files_rc |-> 0, is_active |-> [rc |-> 0, out |-> "active"],
      is_enabled |-> [rc |-> 1, out |-> "disabled"]]}

UnitExists(unit) == unit.list_unit_files_rc = 0

BaseHost ==
    [hostname |-> "host1",
     redhat_release |-> TRUE,
     proc_uptime |-> [readable |-> TRUE, seconds |-> 183600],
     loadavg |-> [ok |-> TRUE, avg |-> <<10, 20, 30>>],
     cpu_count |-> 4,
     proc_stat |-> [readable |-> TRUE, cpu_times |-> <<0, 0, 0, 1000>>],
     proc_cpuinfo |-> [readable |-> TRUE, model |-> "cpu model"],
     ps_cpu |-> <<PsRow>>,
     ps_mem |-> <<PsRow>>,
     proc_meminfo |-> [readable |-> TRUE,
                       kb |-> [MemTotal |-> 1000, MemFree |-> 100, MemAvailable |-> 500,
                               SwapTotal |-> 0, SwapFree |-> 0]],
     df_h |-> [rc |-> 0, rows |-> <<DfRow(1, 40)>>],
     df_i |-> [rc |-> 0, rows |-> <<DfRow(1, 10)>>],
     find_large |-> [rc |-> 0, rows |-> <<>>],
     ip_addr |-> [rc |-> 0,
                  lines |-> <<[kind |-> "header", name |-> "eth0", up |-> TRUE, addr |-> ""],
                              [kind |-> "inet", name |-> "", up |-> FALSE, addr |-> "10.0.0.5/24"]>>],
     ip_route |-> [rc |-> 0, gw |-> "10.0.0.1"],
     nslookup |-> [rc |-> 0],
     ss_listen |-> 3,
     units |-> [n \in Range(critical_services) |-> UnitMissing],
     list_failed |-> [rc |-> 0, lines |-> 0],
     getenforce |-> [rc |-> 0, out |-> "Enforcing"],
     firewalld_rc |-> 3,
     iptables_rc |-> 0,
     check_update |-> [pm_ok |-> TRUE, rc |-> 0, lines |-> 0],
     secure_log |-> [rc |-> 0, count |-> 0],
     output_fs |-> "ok",
     euid |-> 0]

\* any subset of the probes that a group cannot do without fails
FailureHosts ==
    {[BaseHost EXCEPT
        !.redhat_release = rel,
        !.proc_uptime.readable = up,
        !.loadavg.ok = lo,
        !.proc_stat.readable = st,
        !.proc_meminfo.readable = me,
        !.df_h.rc = df,
        !.ip_addr.rc = ip,
        !.output_fs = out] :
     rel \in BOOLEAN, up \in BOOLEAN, lo \in BOOLEAN, st \in BOOLEAN, me \in BOOLEAN,
     df \in {0, 1}, ip \in {0, 1},
     out \in {"ok", "makedirs_fails", "open_fails"}}

\* /proc/stat columns user, nice, system, idle: 0.0 %, 80.0 % and 80.1 % busy
CpuTimes == {<<0, 0, 0, 1000>>, <<800, 0, 0, 200>>, <<8010, 0, 0, 1990>>}

\* MemAvailable of a MemTotal of 1000 kB: 50.0 %, 85.0 % and 85.1 % used
MemAvailables == {500, 150, 149}

LoadHosts ==
    {[BaseHost EXCEPT
        !.proc_stat.cpu_times = ct,
        !.proc_meminfo.kb.MemAvailable = ma,
        !.df_h.rows = rows] :
     ct \in CpuTimes, ma \in MemAvailables, rows \in DfListings}

ServiceHosts ==
    {[BaseHost EXCEPT
        !.units = [n \in Range(critical_services) |->
                     IF \E i \in 1..MonitoredCount : critical_services[i] = n
                     THEN u[CHOOSE i \in 1..MonitoredCount : critical_services[i] = n]
                     ELSE UnitMissing],
        !.list_failed = lf] :
     u \in [1..MonitoredCount -> UnitStates],
     lf \in {[rc |-> 1, lines |-> 0], [rc |-> 0, lines |-> 0], [rc |-> 0, lines |-> 2]}}

\* "dnf check-update -q | wc -l": the status is that of wc, and a package
\* manager that fails or is missing leaves wc nothing to count
CheckUpdates ==
    {[pm_ok |-> TRUE, rc |-> 0, lines |-> 0],
     [pm_ok |-> TRUE, rc |-> 0, lines |-> 3],
     [pm_ok |-> FALSE, rc |-> 0, lines |-> 0],
     [pm_ok |-> FALSE, rc |-> 1, lines |-> 0]}

\* "systemctl is-active firewalld" answers in collect_security_metrics what it
\* answers in the loop of collect_service_metrics: active only if the unit exists
ProbeHosts ==
    {[BaseHost EXCEPT
        !.nslookup.rc = dns,
        !.units["firewalld"] = fw,
        !.firewalld_rc = fw.is_active.rc,
        !.iptables_rc = ipt,
        !.check_update = cu] :
     dns \in {0, 1}, fw \in UnitStates, ipt \in {0, 3}, cu \in CheckUpdates}

\* the lines of /proc/meminfo, in kB
MemInfoKb(mem_total, mem_free, mem_available, swap_total, swap_free) ==
    [MemTotal |-> mem_total, MemFree |-> mem_free, MemAvailable |-> mem_available,
     SwapTotal |-> swap_total, SwapFree |-> swap_free]

\* busy tenths of a percent around the thresholds of the performance section
UsageLevels == {749, 750, 899, 900}

SwapLevels == {249, 250, 499, 500}

\* CPU, memory and swap each at one of the levels, out of a total of 1000
UsageHosts ==
    {[BaseHost EXCEPT
        !.proc_stat.cpu_times = <<c, 0, 0, 1000 - c>>,
        !.proc_meminfo.kb = MemInfoKb(1000, 0, 1000 - m, 1000, 1000 - sw)] :
     c \in UsageLevels, m \in UsageLevels, sw \in SwapLevels}

\* 1-minute load averages in hundredths, around one and two per core
LoadAverages == {99, 100, 199, 200, 390, 400, 799, 800}

CoreCounts == {1, 4}

LoadAverageHosts ==
    {[BaseHost EXCEPT !.loadavg.avg = <<l, 20, 30>>, !.cpu_count = c] :
     l \in LoadAverages, c \in CoreCounts}

\* MemTotal and the memory available of it, in kB: 3 kB gives percentages
\* that need rounding (33.3, 66.7), 1000 kB gives exact tenths
MemorySizes ==
    {<<t, a>> \in {3, 1000} \X {0, 1, 2, 3, 149, 150, 500, 1000} : a <= t}

\* the available memory is in MemAvailable (MemFree is less), or, on a
\* kernel without MemAvailable, in MemFree
MemoryHosts ==
    {[BaseHost EXCEPT !.proc_meminfo.kb = MemInfoKb(ta[1], 0, ta[2], 0, 0)] :
     ta \in MemorySizes}
    \cup
    {[BaseHost EXCEPT !.proc_meminfo.kb =
          [MemTotal |-> ta[1], MemFree |-> ta[2], SwapTotal |-> 0, SwapFree |-> 0]] :
     ta \in MemorySizes}

SwapFrees == {0, 7}

\* hosts without swap: SwapTotal is 0 or is not listed, whatever SwapFree says
SwapHosts ==
    {[BaseHost EXCEPT !.proc_meminfo.kb = MemInfoKb(1000, 100, 500, 0, sf)] :
     sf \in SwapFrees}
    \cup
    {[BaseHost EXCEPT !.proc_meminfo.kb =
          [MemTotal |-> 1000, MemFree |-> 100, MemAvailable |-> 500, SwapFree |-> sf]] :
     sf \in SwapFrees}
    \cup
    {[BaseHost EXCEPT !.proc_meminfo.kb =
          [MemTotal |-> 1000, MemFree |-> 100, MemAvailable |-> 500]]}
    \cup
    {[BaseHost EXCEPT !.proc_meminfo.kb = MemInfoKb(1000, 100, 500, 1000, sf)] :
     sf \in {1000, 750}}

\* the script run by a user other than root
UnprivilegedHosts == {[BaseHost EXCEPT !.euid = 1000]}

\* an idle machine: nothing busy, nothing listed
QuietHost ==
    [BaseHost EXCEPT
        !.ps_cpu = <<>>,
        !.ps_mem = <<>>,
        !.proc_meminfo.kb.MemAvailable = 1000,
        !.df_h.rows = <<DfWrappedRow>>,
        !.df_i.rows = <<DfWrappedRow>>,
        !.ip_addr.lines = <<>>,
        !.ip_route.rc = 1,
        !.ss_listen = 0]

Hosts == {QuietHost} \cup FailureHosts \cup LoadHosts \cup ServiceHosts \cup ProbeHosts \cup LoadAverageHosts
             \cup MemoryHosts \cup SwapHosts \cup UnprivilegedHosts

\* os.path.dirname of the output paths explored
dirname(path) ==
    IF path = "/tmp/system-dashboard.html" THEN "/tmp"
    ELSE IF path = "/var/www/html/metrics/report.html" THEN "/var/www/html/metrics"
    ELSE ""

Outputs == {"/tmp/system-dashboard.html", "report.html"}

\* --config is a path or, when the flag is not given, None
ConfigPaths == {NoneValue, "/etc/metrics.conf"}

Args == [output : Outputs, email : BOOLEAN, config : ConfigPaths]

ShippedConfig ==
    [output_dir |-> "/var/www/html/metrics",
     backup_reports |-> TRUE,
     email_enabled |-> FALSE,
     email_smtp |-> "localhost",
     email_from |-> "noreply@company.com",
     email_to |-> <<"admin@company.com">>,
     retention_days |-> 30]

NoDocument == <<>>

SmtpOutcomes == {"sent", "build_failed", "connect_failed", "sendmail_failed", "quit_failed"}

-----------------------------------------------------------------------------
(* main(): one action for each call it makes, in the order of the source   *)

RootWarning == "Warning: Some metrics may not be available without root privileges"

\* the three lines printed after the with-block that writes the file
SuccessMessages ==
    <<"System dashboard generated successfully!", "Report saved to", "Open in browser">>

Groups == <<"system", "cpu", "memory", "disk", "network", "services", "security">>

\* except Exception as e: logging.error(...); sys.exit(1)
main_except(detail) ==
    /\ log' = log \cup {<<"Error generating dashboard", detail>>}
    /\ exit_code' = 1
    /\ pc' = "exit"

\* a guarded collector stores either its record or the error marker it logged
store_group(group, rec, label, next) ==
    /\ metrics' = Put(metrics, group, rec)
    /\ log' = IF IsErrorMarker(rec) THEN log \cup {<<label, rec.error>>} ELSE log
    /\ pc' = next
    /\ UNCHANGED <<args, CONFIG, host, html_content, output_file, mail, exit_code, mailed>>

collect_system_info ==
    /\ pc = "collect_system_info"
    /\ LET r == collect_system_info_result(host)
       IN  IF r.raised
           THEN main_except(r.exc) /\ UNCHANGED metrics
           ELSE /\ metrics' = Put(metrics, "system", r.value)
                /\ pc' = "collect_cpu_metrics"
                /\ UNCHANGED <<log, exit_code>>
    /\ calls' = calls \o system_info_calls(host)
    /\ stdout' = stdout \o (IF host.euid # 0 THEN <<RootWarning>> ELSE <<>>)
                        \o <<"Collecting system metrics...">>
    /\ UNCHANGED <<args, CONFIG, host, html_content, output_file, mail, mailed>>

collect_cpu_metrics ==
    /\ pc = "collect_cpu_metrics"
    /\ store_group("cpu", collect_cpu_metrics_result(host, metrics),
                   "Error collecting CPU metrics", "collect_memory_metrics")
    /\ calls' = calls \o cpu_calls(host)
    /\ UNCHANGED stdout

collect_memory_metrics ==
    /\ pc = "collect_memory_metrics"
    /\ store_group("memory", collect_memory_metrics_result(host),
                   "Error collecting memory metrics", "collect_disk_metrics")
    /\ calls' = calls \o memory_calls(host)
    /\ UNCHANGED stdout

collect_disk_metrics ==
    /\ pc = "collect_disk_metrics"
    /\ store_group("disk", collect_disk_metrics_result(host),
                   "Error collecting disk metrics", "collect_network_metrics")
    /\ calls' = calls \o disk_calls(host)
    /\ UNCHANGED stdout

\* collect_all_metrics without its last two calls
collect_network_metrics_then_render ==
    /\ pc = "collect_network_metrics"
    /\ store_group("network", collect_network_metrics_result(host),
                   "Error collecting network metrics", "generate_html")
    /\ calls' = calls \o network_calls(host)
    /\ UNCHANGED stdout

collect_network_metrics ==
    /\ pc = "collect_network_metrics"
    /\ store_group("network", collect_network_metrics_result(host),
                   "Error collecting network metrics", "collect_service_metrics")
    /\ calls' = calls \o network_calls(host)
    /\ UNCHANGED stdout

collect_service_metrics ==
    /\ pc = "collect_service_metrics"
    /\ store_group("services", collect_service_metrics_result(host),
                   "Error collecting service metrics", "collect_security_metrics")
    /\ calls' = calls \o service_calls(host)
    /\ UNCHANGED stdout

collect_security_metrics ==
    /\ pc = "collect_security_metrics"
    /\ store_group("security", collect_security_metrics_result(host),
                   "Error collecting security metrics", "generate_html")
    /\ calls' = calls \o security_calls(host)
    /\ stdout' = Append(stdout, "Metrics collection completed.")

\* report_generator = HTMLReportGenerator(metrics); html_content = generate_html()
main_generate_html ==
    /\ pc = "generate_html"
    /\ LET document == generate_html(metrics)
       IN  IF document.raised
           THEN main_except(document.exc) /\ UNCHANGED html_content
           ELSE /\ html_content' = document
                /\ pc' = "makedirs"
                /\ UNCHANGED <<log, exit_code>>
    /\ UNCHANGED <<args, CONFIG, host, metrics, output_file, mail, calls, mailed, stdout>>

\* makedirs called only when the output path names a directory
main_makedirs_skipping_empty ==
    /\ pc = "makedirs"
    /\ IF dirname(args.output) # "" /\ host.output_fs = "makedirs_fails"
       THEN main_except("makedirs")
       ELSE pc' = "write" /\ UNCHANGED <<log, exit_code>>
    /\ UNCHANGED <<args, CONFIG, host, metrics, html_content, output_file, mail, calls, mailed,
                   stdout>>

\* os.makedirs(os.path.dirname(output_path), exist_ok=True): the empty path raises
main_makedirs ==
    /\ pc = "makedirs"
    /\ IF dirname(args.output) = "" \/ host.output_fs = "makedirs_fails"
       THEN main_except("makedirs")
       ELSE pc' = "write" /\ UNCHANGED <<log, exit_code>>
    /\ UNCHANGED <<args, CONFIG, host, metrics, html_content, output_file, mail, calls, mailed,
                   stdout>>

\* the file is written, then the three lines are printed
main_write ==
    /\ pc = "write"
    /\ IF host.output_fs = "open_fails"
       THEN main_except("open") /\ UNCHANGED <<output_file, stdout>>
       ELSE /\ output_file' = html_content
            /\ stdout' = stdout \o SuccessMessages
            /\ pc' = "send_email"
            /\ UNCHANGED <<log, exit_code>>
    /\ UNCHANGED <<args, CONFIG, host, metrics, html_content, mail, calls, mailed>>

\* send_email_report without its try: a failing step raises into main
send_email_report_unguarded(outcome, logged) ==
    [mail |-> outcome, log |-> logged, raised |-> outcome # "sent"]

\* the steps of send_email_report (build the message, connect, sendmail, quit)
\* share one try: the first that fails is logged and the function returns
\* normally, so nothing reaches the except clause of main
send_email_report(outcome, logged) ==
    [mail |-> outcome,
     log |-> IF outcome = "sent" THEN logged
             ELSE logged \cup {<<"Failed to send email", outcome>>},
     raised |-> FALSE]

\* email_requested with the run-time flag alone deciding
email_requested_flag_only(a, config) == a.email

\* if args.email and CONFIG.get('email_enabled')
email_requested(a, config) == a.email /\ Get(config, "email_enabled", FALSE)

main_send_email ==
    /\ pc = "send_email"
    /\ IF email_requested(args, CONFIG)
       THEN \E outcome \in SmtpOutcomes :
                LET r == send_email_report(outcome, log)
                IN  /\ mail' = r.mail
                    /\ mailed' = IF outcome \in {"sent", "quit_failed"}
                                 THEN html_content ELSE NoDocument
                    /\ stdout' = IF outcome = "sent"
                                 THEN Append(stdout, "Email report sent successfully!")
                                 ELSE stdout
                    /\ IF r.raised
                       THEN main_except(outcome)
                       ELSE log' = r.log /\ pc' = "exit" /\ UNCHANGED exit_code
       ELSE pc' = "exit" /\ UNCHANGED <<mail, log, exit_code, mailed, stdout>>
    /\ UNCHANGED <<args, CONFIG, host, metrics, html_content, output_file, calls>>

\* a main() that takes email_enabled from the file named by --config
Init_reading_config ==
    /\ pc = "collect_system_info"
    /\ args \in Args
    /\ CONFIG = [ShippedConfig EXCEPT !.email_enabled = args.config # NoneValue]
    /\ host \in Hosts
    /\ metrics = EmptyDict
    /\ html_content = NoDocument
    /\ output_file = NoDocument
    /\ mail = "not_invoked"
    /\ log = {}
    /\ exit_code = 0
    /\ calls = <<>>
    /\ mailed = NoDocument
    /\ stdout = <<>>

Init ==
    /\ pc = "collect_system_info"
    /\ args \in Args
    /\ CONFIG = ShippedConfig
    /\ host \in Hosts
    /\ metrics = EmptyDict
    /\ html_content = NoDocument
    /\ output_file = NoDocument
    /\ mail = "not_invoked"
    /\ log = {}
    /\ exit_code = 0
    /\ calls = <<>>
    /\ mailed = NoDocument
    /\ stdout = <<>>

Next ==
    \/ collect_system_info
    \/ collect_cpu_metrics
    \/ collect_memory_metrics
    \/ collect_disk_metrics
    \/ collect_network_metrics
    \/ collect_service_metrics
    \/ collect_security_metrics
    \/ main_generate_html
    \/ main_makedirs
    \/ main_write
    \/ main_send_email

Spec == Init /\ [][Next]_vars

\* the same run with the configuration block edited to enable mail
InitConfigured ==
    /\ pc = "collect_system_info"
    /\ args \in Args
    /\ CONFIG \in {[ShippedConfig EXCEPT !.email_enabled = e] : e \in BOOLEAN}
    /\ host \in FailureHosts
    /\ metrics = EmptyDict
    /\ html_content = NoDocument
    /\ output_file = NoDocument
    /\ mail = "not_invoked"
    /\ log = {}
    /\ exit_code = 0
    /\ calls = <<>>
    /\ mailed = NoDocument
    /\ stdout = <<>>

SpecConfigured == InitConfigured /\ [][Next]_vars

-----------------------------------------------------------------------------
(* HTMLReportGenerator used on its own: the constructor takes any mapping, *)
(* so a client may pass a Snapshot in which groups are absent.             *)

\* the Snapshot collect_all_metrics builds on host h (system collected)
Snapshot(h) ==
    LET m1 == Put(EmptyDict, "system", collect_system_info_result(h).value)
        m2 == Put(m1, "cpu", collect_cpu_metrics_result(h, m1))
        m3 == Put(m2, "memory", collect_memory_metrics_result(h))
        m4 == Put(m3, "disk", collect_disk_metrics_result(h))
        m5 == Put(m4, "network", collect_network_metrics_result(h))
        m6 == Put(m5, "services", collect_service_metrics_result(h))
    IN  Put(m6, "security", collect_security_metrics_result(h))

Restrict(m, keys) == [k \in (DOMAIN m) \cap keys |-> m[k]]

RenderHosts ==
    {QuietHost} \cup UsageHosts
                \cup {h \in FailureHosts : /\ ~collect_system_info_result(h).raised
                                            /\ h.redhat_release
                                            /\ h.output_fs = "ok"}

RenderSnapshots ==
    {Restrict(Snapshot(h), keys) : h \in RenderHosts, keys \in SUBSET Range(Groups)}

\* a renderer that consumes what it has rendered
render_snapshot_consuming ==
    /\ pc \in {"HTMLReportGenerator", "returned"}
    /\ html_content' = generate_html(metrics)
    /\ metrics' = Restrict(metrics, DOMAIN metrics \ {"disk"})
    /\ pc' = IF pc = "HTMLReportGenerator" THEN "returned" ELSE "returned_twice"
    /\ UNCHANGED <<args, CONFIG, host, output_file, mail, log, exit_code, calls, mailed,
                   stdout>>

\* generator.generate_html(), called a first and then a second time on the
\* same HTMLReportGenerator object
render_snapshot ==
    /\ pc \in {"HTMLReportGenerator", "returned"}
    /\ html_content' = generate_html(metrics)
    /\ pc' = IF pc = "HTMLReportGenerator" THEN "returned" ELSE "returned_twice"
    /\ UNCHANGED <<args, CONFIG, host, metrics, output_file, mail, log, exit_code,
                   calls, mailed, stdout>>

InitRender ==
    /\ pc = "HTMLReportGenerator"
    /\ args = [output |-> "/tmp/system-dashboard.html", email |-> FALSE, config |-> NoneValue]
    /\ CONFIG = ShippedConfig
    /\ host = BaseHost
    /\ metrics \in RenderSnapshots
    /\ html_content = NoDocument
    /\ output_file = NoDocument
    /\ mail = "not_invoked"
    /\ log = {}
    /\ exit_code = 0
    /\ calls = <<>>
    /\ mailed = NoDocument
    /\ stdout = <<>>

NextRender == render_snapshot

SpecRender == InitRender /\ [][NextRender]_vars

-----------------------------------------------------------------------------
(* Vocabulary of the properties *)

CollectionOver == pc \in {"generate_html", "makedirs", "write", "send_email", "exit"}

Rendered == html_content # NoDocument

Written == output_file # NoDocument

\* the probe a group cannot do without raises on this host
GroupProbeRaises(group, h) ==
    IF group = "system" THEN ~h.proc_uptime.readable \/ ~h.loadavg.ok
    ELSE IF group = "cpu" THEN ~h.proc_stat.readable
    ELSE IF group = "memory" THEN ~h.proc_meminfo.readable
    ELSE IF group = "disk" THEN h.df_h.rc # 0 \/ h.df_i.rc # 0
    ELSE IF group = "network" THEN h.ip_addr.rc # 0
    ELSE FALSE

\* the output directory can be created and the file opened for writing
OutputWritable == dirname(args.output) # "" /\ host.output_fs = "ok"

RenderingFailed == \E e \in log : e[1] = "Error generating dashboard" /\ e[2] = "KeyError: 'system'"

-----------------------------------------------------------------------------
(* C1: once collect_all_metrics is over (or the run has ended), each of    *)
(* the seven groups is in the Snapshot, as an {"error": ...} record        *)
(* exactly if its probe raised, whichever groups' probes raised.           *)
C1_EveryGroupCollected ==
    (CollectionOver) =>
        \A i \in DOMAIN Groups :
            /\ Groups[i] \in DOMAIN metrics
            /\ IsErrorMarker(metrics[Groups[i]]) <=> GroupProbeRaises(Groups[i], host)

(* C2: the run exits non-zero only if the output directory or file cannot  *)
(* be written or rendering raised; a collection error of one group, the    *)
(* system group included, is absorbed: when the output can be written the  *)
(* run writes the file and exits 0.                                        *)
C2_ExitNonZeroOnlyOnReportFailure ==
    (pc = "exit") =>
        /\ exit_code # 0 => (~OutputWritable \/ RenderingFailed)
        /\ OutputWritable /\ ~RenderingFailed => (Written /\ exit_code = 0)

\* the filesystems of a Snapshot, as the renderer reads them
FilesystemsOf(m) ==
    IF "disk" \in DOMAIN m THEN Get(m["disk"], "filesystems", <<>>) ELSE <<>>

UsageOf(m, group) ==
    IF group \in DOMAIN m THEN Val(Get(m[group], "usage_percent", PyInt(0))) ELSE 0

\* the overall health the three rules give, in their stated precedence
ExpectedOverallHealth(m) ==
    IF \E i \in DOMAIN FilesystemsOf(m) : Val(FilesystemsOf(m)[i]["usage_percent"]) >= Pct(90)
    THEN "critical"
    ELSE IF UsageOf(m, "cpu") > Pct(80) \/ UsageOf(m, "memory") > Pct(85)
    THEN "warning"
    ELSE "ok"

(* C3: the overall health of the rendered page is critical if a filesystem *)
(* has usage_percent >= 90, else warning if CPU usage > 80 or memory usage *)
(* > 85, else ok.                                                          *)
C3_OverallHealthByPrecedence ==
    Rendered => html_content.system_overview.health_class = ExpectedOverallHealth(metrics)

HasFilesystemAt(m, percent) ==
    \E i \in DOMAIN FilesystemsOf(m) : Val(FilesystemsOf(m)[i]["usage_percent"]) = Pct(percent)

(* C4: a Snapshot with a filesystem at 95 % is rendered with overall       *)
(* health critical whatever the CPU and memory usage, and the issues list  *)
(* names the mountpoint of each filesystem that set the critical health.   *)
C4_CriticalDominatesWarning ==
    (Rendered /\ HasFilesystemAt(metrics, 95)) =>
        /\ html_content.system_overview.health_class = "critical"
        /\ html_content.system_overview.health_text = "Critical Issues"
        /\ \A i \in DOMAIN FilesystemsOf(metrics) :
              Val(FilesystemsOf(metrics)[i]["usage_percent"]) > Pct(90) =>
                  <<"Critical disk space on", FilesystemsOf(metrics)[i]["mountpoint"]>>
                      \in Range(html_content.system_overview.issues)

\* a page rendered from a filesystem at 95 % together with high CPU usage
C4_Witness ==
    /\ Rendered
    /\ HasFilesystemAt(metrics, 95)
    /\ UsageOf(metrics, "cpu") > Pct(80)
    /\ html_content.system_overview.health_class = "critical"

(* C5: after collect_service_metrics, each monitored service whose unit    *)
(* exists has exactly one entry with its active state, its enabled state   *)
(* and health ok if active, else critical; a missing unit has no entry.    *)
C5_ExistingServiceRecorded ==
    ("services" \in DOMAIN metrics) =>
        \A n \in DOMAIN critical_services :
            LET name == critical_services[n]
                unit == host.units[name]
                list == metrics["services"]["critical_services"]
                entries == {j \in DOMAIN list : list[j]["name"] = name}
            IN  IF UnitExists(unit)
                THEN /\ Cardinality(entries) = 1
                     /\ \A j \in entries :
                           /\ list[j]["status"] = unit.is_active.out
                           /\ list[j]["enabled"] = unit.is_enabled.out
                           /\ list[j]["health"] =
                                  IF unit.is_active.out = "active" THEN "ok" ELSE "critical"
                ELSE entries = {}

(* C6: when the report is written, the run exits 0 and each group that is  *)
(* an {"error": ...} marker shows in the page: the page is not the one of  *)
(* the same Snapshot with that group collected healthy with zero and empty *)
(* values, and it carries the failure, so that another error message gives *)
(* another page.                                                           *)
C6_GroupFailureVisibleInReport ==
    (pc = "exit" /\ Written) =>
        /\ exit_code = 0
        /\ \A g \in DOMAIN metrics :
              IsErrorMarker(metrics[g]) =>
                  /\ html_content # generate_html(Put(metrics, g, Snapshot(QuietHost)[g]))
                  /\ html_content # generate_html(Put(metrics, g, ErrorMarker("another failure")))

\* the groups a section reads
SectionSources ==
    [system_overview |-> {"system"},
     performance_metrics |-> {"cpu", "memory"},
     disk_analysis |-> {"disk"},
     network_status |-> {"network"},
     security_status |-> {"security"},
     services_status |-> {"services"}]

(* C7: when the source group of a section is absent from the Snapshot or   *)
(* empty, generate_html still returns a document and that section holds a  *)
(* placeholder line.                                                       *)
C7_SectionsDegradeToPlaceholder ==
    (pc = "returned") =>
        \A section \in DOMAIN SectionSources :
            (\E g \in SectionSources[section] : g \notin DOMAIN metrics \/ metrics[g] = EmptyDict) =>
                /\ ~html_content.raised
                /\ Get(html_content[section], "placeholder", "") # ""

(* C8: a DNS probe, a pair of firewall probes or an update check that      *)
(* fails leaves its group populated and its field at a value that is not   *)
(* the healthy one.                                                        *)
C8_SoftFailureIsExplicit ==
    /\ ("network" \in DOMAIN metrics /\ host.ip_addr.rc = 0 /\ host.nslookup.rc # 0) =>
          /\ ~IsErrorMarker(metrics["network"])
          /\ metrics["network"]["dns_status"] # "ok"
    /\ ("security" \in DOMAIN metrics) =>
          /\ ~IsErrorMarker(metrics["security"])
          /\ (host.firewalld_rc # 0 /\ host.iptables_rc # 0) =>
                 metrics["security"]["firewall"]["health"] # "ok"
          /\ ~host.check_update.pm_ok =>
                 metrics["security"]["updates"]["health"] # "ok"

MailInvoked == mail # "not_invoked"

(* C9: send_email_report is invoked exactly in the runs that wrote the     *)
(* report file with both the --email flag and CONFIG['email_enabled']      *)
(* true; before the end of the run, and with either flag false, it never   *)
(* is.                                                                     *)
C9_MailOnlyWhenBothFlags ==
    /\ MailInvoked => (pc = "exit" /\ Written /\ args.email /\ CONFIG["email_enabled"])
    /\ (pc = "exit" /\ Written /\ args.email /\ CONFIG["email_enabled"]) => MailInvoked

\* a run that mailed, and the flags it had
C9_Witness == pc = "exit" /\ MailInvoked /\ args.email /\ CONFIG["email_enabled"]

(* C10: when send_email_report was invoked and one of its steps failed,    *)
(* the failure is logged, the exit code is 0 and the file written before   *)
(* still holds the document.                                               *)
C10_MailFailureNotFatal ==
    (MailInvoked /\ mail # "sent") =>
        /\ <<"Failed to send email", mail>> \in log
        /\ pc = "exit"
        /\ exit_code = 0
        /\ Written /\ output_file = html_content

\* a run whose connection to the relay failed
C10_Witness == pc = "exit" /\ mail = "connect_failed" /\ exit_code = 0

-----------------------------------------------------------------------------
-----------------------------------------------------------------------------
\* the status the thresholds 80 and 90 give a usage in tenths of a percent
StatusByThresholds(tenths, warning, critical) ==
    IF tenths >= Pct(critical) THEN "critical"
    ELSE IF tenths >= Pct(warning) THEN "warning"
    ELSE "ok"

(* C12: every filesystem record of a collected disk group has status       *)
(* critical when its own usage is 90 % or more, warning from 80 % up to    *)
(* 89 %, and ok below 80 %.                                                *)
C12_FilesystemStatusByUsage ==
    \A i \in DOMAIN FilesystemsOf(metrics) :
        LET fs == FilesystemsOf(metrics)[i]
        IN  fs.status = StatusByThresholds(Val(fs.usage_percent), 80, 90)

C12_Witness ==
    /\ CollectionOver
    /\ \E i, j \in DOMAIN FilesystemsOf(metrics) :
          LET a == FilesystemsOf(metrics)[i]
              b == FilesystemsOf(metrics)[j]
          IN  /\ Val(a.usage_percent) = Pct(80) /\ a.status = "warning"
              /\ Val(b.usage_percent) = Pct(90) /\ b.status = "critical"

-----------------------------------------------------------------------------
\* the group was collected: it is in the Snapshot and is not an error marker
Populated(m, group) == group \in DOMAIN m /\ ~IsErrorMarker(m[group])

\* a document was returned by generate_html
Returned == pc \in {"returned", "returned_twice"} /\ ~html_content.raised

(* C13: the performance section shows CPU and memory usage with status     *)
(* critical from 90 %, warning from 75 %, ok below; swap usage with status *)
(* critical from 50 %, warning from 25 %, ok below; a CPU or memory group  *)
(* that is absent or an error marker is shown with usage 0 and status ok.  *)
C13_UsageStatusByThresholds ==
    Returned =>
      LET section == html_content.performance_metrics
      IN  /\ IF Populated(metrics, "cpu")
             THEN /\ section.cpu_usage = metrics["cpu"].usage_percent
                  /\ section.cpu_status =
                       StatusByThresholds(Val(metrics["cpu"].usage_percent), 75, 90)
             ELSE section.cpu_usage = PyInt(0) /\ section.cpu_status = "ok"
          /\ IF Populated(metrics, "memory")
             THEN /\ section.memory_usage = metrics["memory"].usage_percent
                  /\ section.memory_status =
                       StatusByThresholds(Val(metrics["memory"].usage_percent), 75, 90)
                  /\ section.swap_usage = metrics["memory"].swap_usage_percent
                  /\ section.swap_status =
                       StatusByThresholds(Val(metrics["memory"].swap_usage_percent), 25, 50)
             ELSE /\ section.memory_usage = PyInt(0) /\ section.memory_status = "ok"
                  /\ section.swap_usage = PyInt(0) /\ section.swap_status = "ok"

C13_Witness ==
    /\ Returned
    /\ "cpu" \notin DOMAIN metrics
    /\ html_content.performance_metrics.cpu_status = "ok"
    /\ Populated(metrics, "memory")
    /\ Val(metrics["memory"].usage_percent) = Pct(90)
    /\ html_content.performance_metrics.memory_status = "critical"
    /\ Val(metrics["memory"].swap_usage_percent) = Pct(25)
    /\ html_content.performance_metrics.swap_status = "warning"

-----------------------------------------------------------------------------
(* C14: with 1-minute load L on a host of C >= 1 cores, the overview shows *)
(* the load as critical when L / C >= 2.0, as warning when                 *)
(* 1.0 <= L / C < 2.0 and as ok when L / C < 1.0 (on 4 cores: 3.9 ok,      *)
(* 4.0 warning, 8.0 critical).                                             *)
C14_LoadStatusByCores ==
    (Rendered /\ ~html_content.raised /\ host.cpu_count >= 1) =>
      LET L == host.loadavg.avg[1]
          C == host.cpu_count
      IN  html_content.system_overview.load_class =
            IF L >= 200 * C THEN "status-critical"
            ELSE IF L >= 100 * C THEN "status-warning"
            ELSE "status-ok"

C14_Witness ==
    /\ Rendered
    /\ host.cpu_count = 4
    /\ host.loadavg.avg[1] = 400
    /\ html_content.system_overview.load_class = "status-warning"

-----------------------------------------------------------------------------
\* what /proc/meminfo of the host says, in kB
MemTotalOf(h) == h.proc_meminfo.kb["MemTotal"]

MemAvailableOf(h) ==
    IF "MemAvailable" \in DOMAIN h.proc_meminfo.kb
    THEN h.proc_meminfo.kb["MemAvailable"]
    ELSE h.proc_meminfo.kb["MemFree"]

SwapTotalOf(h) ==
    IF "SwapTotal" \in DOMAIN h.proc_meminfo.kb THEN h.proc_meminfo.kb["SwapTotal"] ELSE 0

MeminfoListsMemory(h) ==
    /\ h.proc_meminfo.readable
    /\ {"MemTotal", "MemFree"} \subseteq DOMAIN h.proc_meminfo.kb
    /\ MemTotalOf(h) > 0

(* C15: with memory total T and available A, 0 <= A <= T, A read from      *)
(* MemAvailable or, where that line is absent, from MemFree, the memory    *)
(* group is populated, used_bytes is T - A, and usage_percent is the tenth *)
(* of a percent nearest to (T - A) / T * 100, which is 0 when T = A.       *)
C15_MemoryUsageFromAvailable ==
    ("memory" \in DOMAIN metrics /\ MeminfoListsMemory(host)
        /\ 0 <= MemAvailableOf(host) /\ MemAvailableOf(host) <= MemTotalOf(host)) =>
      LET T == MemTotalOf(host) * 1024
          A == MemAvailableOf(host) * 1024
          memory == metrics["memory"]
          tenths == Val(memory.usage_percent)
          distance == tenths * T - 1000 * (T - A)
      IN  /\ Populated(metrics, "memory")
          /\ memory.total_bytes = T
          /\ memory.used_bytes = T - A
          /\ 2 * distance <= T /\ 2 * distance >= -T
          /\ (T = A => tenths = 0)

C15_Witness ==
    /\ Populated(metrics, "memory")
    /\ "MemAvailable" \notin DOMAIN host.proc_meminfo.kb
    /\ MemTotalOf(host) = 3
    /\ host.proc_meminfo.kb["MemFree"] = 1
    /\ metrics["memory"].usage_percent = PyFloat(667)

(* C16: when the swap total is 0, or /proc/meminfo has no SwapTotal line,  *)
(* swap_usage_percent is exactly 0 whatever the swap-free value is, and    *)
(* the memory group is populated, not an error marker.                     *)
C16_NoSwapIsZeroPercent ==
    ("memory" \in DOMAIN metrics /\ MeminfoListsMemory(host) /\ SwapTotalOf(host) = 0) =>
      /\ Populated(metrics, "memory")
      /\ Val(metrics["memory"].swap_usage_percent) = 0
      /\ metrics["memory"].swap_total_bytes = 0

C16_Witness ==
    /\ Populated(metrics, "memory")
    /\ "SwapTotal" \notin DOMAIN host.proc_meminfo.kb
    /\ "SwapFree" \in DOMAIN host.proc_meminfo.kb
    /\ host.proc_meminfo.kb["SwapFree"] = 7
    /\ Val(metrics["memory"].swap_usage_percent) = 0

-----------------------------------------------------------------------------
\* none of the monitored units is installed on the host
NoMonitoredService(h) == \A n \in DOMAIN h.units : ~UnitExists(h.units[n])

(* C17: on a host where no monitored service exists and the failed-units   *)
(* query fails, the services group is populated with an empty service list *)
(* and failed_count 0, and the services section of the report shows the    *)
(* placeholder line, no table, and a summary of 0 monitored and 0 failed.  *)
C17_NoServicesNoFailures ==
    (NoMonitoredService(host) /\ host.list_failed.rc # 0) =>
      /\ "services" \in DOMAIN metrics =>
            metrics["services"] = [critical_services |-> <<>>, failed_count |-> 0]
      /\ (Rendered /\ ~html_content.raised) =>
            LET section == html_content.services_status
            IN  /\ section.placeholder = "No service data available"
                /\ ~section.table
                /\ section.rows = <<>>
                /\ section.monitored_count = 0
                /\ section.failed_count = 0

C17_Witness ==
    /\ NoMonitoredService(host)
    /\ host.list_failed.rc # 0
    /\ Rendered
    /\ Populated(metrics, "services")
    /\ html_content.services_status.placeholder = "No service data available"

-----------------------------------------------------------------------------
\* how many times the run has attempted a call so far
Attempts(call) == Cardinality({i \in DOMAIN calls : calls[i] = call})

FirewalldQuery == <<"systemctl is-active", "firewalld">>

(* C18: no retries: every external call, each distinct command or file     *)
(* read such as the firewalld is-active query, is attempted exactly once   *)
(* per run, whatever its outcome.                                          *)
C18_EveryCallAttemptedOnce ==
    \A call \in Range(calls) : Attempts(call) = 1

(* C18, amended: no call is retried.  Each distinct command or file read   *)
(* is attempted at most once per run, except the firewalld is-active       *)
(* query: collect_security_metrics attempts it once, and                   *)
(* collect_service_metrics has attempted it once before when the firewalld *)
(* unit is installed, whatever either attempt answered.                    *)
C18_NoCallRetried ==
    /\ \A call \in Range(calls) \ {FirewalldQuery} : Attempts(call) = 1
    /\ Attempts(FirewalldQuery) <= 2
    /\ "security" \in DOMAIN metrics =>
          Attempts(FirewalldQuery) =
              IF UnitExists(host.units["firewalld"]) THEN 2 ELSE 1

C18_Witness ==
    /\ "security" \in DOMAIN metrics
    /\ UnitExists(host.units["firewalld"])
    /\ host.firewalld_rc # 0
    /\ Attempts(FirewalldQuery) = 2
    /\ Attempts(<<"systemctl is-active", "iptables">>) = 1

-----------------------------------------------------------------------------
\* the groups stored by the first k collectors
FirstGroups(k) == {Groups[i] : i \in 1..k}

Collectors ==
    <<"collect_system_info", "collect_cpu_metrics", "collect_memory_metrics",
      "collect_disk_metrics", "collect_network_metrics", "collect_service_metrics",
      "collect_security_metrics">>

\* each stage has behind it all the stages before it
StagesInOrder ==
    /\ \A k \in DOMAIN Collectors : pc = Collectors[k] => DOMAIN metrics = FirstGroups(k - 1)
    /\ pc \in {"generate_html", "makedirs", "write", "send_email"} =>
          DOMAIN metrics = FirstGroups(Len(Groups))
    /\ Rendered => DOMAIN metrics = FirstGroups(Len(Groups))
    /\ pc \in {"makedirs", "write"} => Rendered /\ ~Written
    /\ pc = "send_email" => Written
    /\ Written => Rendered /\ output_file = html_content
    /\ MailInvoked => Written /\ pc = "exit"
    /\ mailed # NoDocument => mailed = output_file

(* C19: one run is collect (system, cpu, memory, disk, network, services,  *)
(* security, in that order), then render, then write, then the optional    *)
(* mail: rendering never begins before all seven collectors have returned, *)
(* the Snapshot is not modified once rendering has begun, and the document *)
(* mailed is the one that was written.                                     *)
C19_PipelineOrder ==
    /\ []StagesInOrder
    /\ [][pc \notin Range(Collectors) => metrics' = metrics]_vars

C19_Witness ==
    /\ pc = "exit"
    /\ mail = "sent"
    /\ Written
    /\ mailed = output_file
    /\ DOMAIN metrics = FirstGroups(Len(Groups))

-----------------------------------------------------------------------------
IptablesQuery == <<"systemctl is-active", "iptables">>

(* C20: the firewall is probed as firewalld first and as iptables only     *)
(* when the firewalld query fails; its status is "active (firewalld)",     *)
(* "active (iptables)" or "inactive" accordingly; and its health is ok if  *)
(* and only if one of the two reports active, warning when both fail.      *)
C20_FirewallHealthFromProbes ==
    Populated(metrics, "security") =>
      LET firewall == metrics["security"].firewall
          active == host.firewalld_rc = 0 \/ host.iptables_rc = 0
      IN  /\ firewall.status = IF host.firewalld_rc = 0 THEN "active (firewalld)"
                               ELSE IF host.iptables_rc = 0 THEN "active (iptables)"
                               ELSE "inactive"
          /\ Attempts(IptablesQuery) = IF host.firewalld_rc = 0 THEN 0 ELSE 1
          /\ \A i \in DOMAIN calls :
                calls[i] = IptablesQuery => i > 1 /\ calls[i - 1] = FirewalldQuery
          /\ firewall.health = IF active THEN "ok" ELSE "warning"

-----------------------------------------------------------------------------
ResourceGroups == {"cpu", "memory", "disk"}

\* a populated resource group holds a figure beyond the overview's limit
MeasuredOverLimit(m) ==
    \/ Populated(m, "cpu") /\ UsageOf(m, "cpu") > Pct(80)
    \/ Populated(m, "memory") /\ UsageOf(m, "memory") > Pct(85)
    \/ /\ Populated(m, "disk")
       /\ \E i \in DOMAIN FilesystemsOf(m) :
             Val(FilesystemsOf(m)[i]["usage_percent"]) > Pct(90)

(* C21: the overall health of the report comes from the figures of the     *)
(* populated groups alone: it is other than ok only if a populated group   *)
(* holds a figure beyond its limit, and a Snapshot whose cpu, memory and   *)
(* disk groups are all error markers is rendered with overall health ok,   *)
(* "Excellent", "All systems operating normally".                          *)
C21_FailuresRenderedHealthy ==
    (Rendered /\ ~html_content.raised) =>
      LET overview == html_content.system_overview
      IN  /\ overview.health_class # "ok" => MeasuredOverLimit(metrics)
          /\ (\A g \in ResourceGroups : IsErrorMarker(metrics[g])) =>
                /\ overview.health_class = "ok"
                /\ overview.alert = "success"
                /\ overview.health_text = "Excellent"
                /\ overview.issues = <<>>
                /\ overview.issues_line = "All systems operating normally"

C21_Witness ==
    /\ Rendered
    /\ \A g \in ResourceGroups : g \in DOMAIN metrics /\ IsErrorMarker(metrics[g])
    /\ html_content.system_overview.health_text = "Excellent"

-----------------------------------------------------------------------------
(* C22: CONFIG is never written after module load and --config is never    *)
(* read, so CONFIG['email_enabled'] is False in every reachable state and  *)
(* no run invokes send_email_report, whatever flags it is given, --email   *)
(* and --config included.                                                  *)
C22_MailNeverSent ==
    /\ CONFIG = ShippedConfig
    /\ ~CONFIG["email_enabled"]
    /\ ~MailInvoked
    /\ mailed = NoDocument

C22_Witness ==
    /\ pc = "exit"
    /\ exit_code = 0
    /\ Written
    /\ args.email
    /\ args.config # NoneValue
    /\ ~MailInvoked

-----------------------------------------------------------------------------
\* one of the lines that report success has been printed
SuccessPrinted == \E i \in DOMAIN stdout : stdout[i] \in Range(SuccessMessages)

\* --output names a file without a directory part
BareFilename == dirname(args.output) = ""

(* C23: when --output has no directory component, such as "report.html",   *)
(* creating the directory of the empty path fails: the run exits non-zero  *)
(* without writing a file and without attempting mail, although collection *)
(* and rendering succeeded; and the success messages are printed only      *)
(* after the file has been written.                                        *)
C23_BareFilenameFails ==
    /\ SuccessPrinted => Written
    /\ BareFilename => ~Written /\ ~MailInvoked /\ ~SuccessPrinted
    /\ (BareFilename /\ Rendered) => pc \in {"makedirs", "exit"}
    /\ (BareFilename /\ Rendered /\ pc = "exit") =>
          /\ exit_code = 1
          /\ <<"Error generating dashboard", "makedirs">> \in log

C23_Witness ==
    /\ pc = "exit"
    /\ args.output = "report.html"
    /\ args.email
    /\ CONFIG["email_enabled"]
    /\ \A i \in DOMAIN Groups : Populated(metrics, Groups[i])
    /\ Rendered
    /\ exit_code = 1
    /\ ~Written

====
